---- MODULE Spec2Model ----
(***************************************************************************)
(* Model of benchi's test runner (src/runner.go): the batch driver Run,    *)
(* buildTestRuns, and the lifecycle of one testRun (testRun.Run) with its  *)
(* background ComposeUp tasks, the per-container readiness polls of        *)
(* dockerComposeUpWait and the deferred cleanup.                           *)
(***************************************************************************)
EXTENDS Integers, Sequences, FiniteSets, TLC

VARIABLES
    testRuns,           \* the test runs of the batch (result of buildTestRuns)
    runIdx,             \* index of the run the driver loop is at (0: none yet)
    fs,                 \* output folders that exist on disk
    ctxDone,            \* the context passed to Run has been cancelled
    pc,                 \* position of the main goroutine
    stepIdx,            \* index into steps (forward walk) or cleanupSteps (deferred)
    err,                \* named result err of testRun.Run when its return statement ran
    runErr,             \* err of the driver: what tr.Run(ctx) returned (line 57)
    goroutinePool,      \* r.goroutinePool: nil until line 155
    panicking,          \* a panic is unwinding testRun.Run
    runResult,          \* how the last testRun.Run ended: none / returned / panic
    batchErr,           \* result of the driver Run
    cleanupFns,         \* r.cleanupFns
    bg,                 \* ComposeUp task spawned through r.Go, per stage
    goroutinePoolDead,  \* r.goroutinePoolDead
    attempts,           \* iterations of the discovery loop taken so far
    containers,         \* containers listed by ComposePs
    observedReady,      \* containers an inspection has shown ready (history)
    poll,               \* per-container readiness poll goroutine
    upErr,              \* what dockerComposeUpWait returned to the stage
    cleanupIdx,         \* position of cleanup's loop in Backward(r.cleanupFns)
    errs,               \* errs of cleanup
    deferErrs,          \* errs of the deferred function of testRun.Run
    elapsed,            \* the testCompleted timer has fired and is unread
    tickPending,        \* logTicker.C holds an unread tick
    trace,              \* steps entered by the current run, in order (history)
    engineOps,          \* container-engine operations of the current run (history)
    invoked,            \* cleanup functions invoked by the current run, in order (history)
    cancelledInWait,    \* the context was cancelled while a wait was parked (history)
    existed,            \* the output folder existed when testRun.Run was called (history)
    cfg,                \* configuration handed to buildTestRuns
    built,              \* result of buildTestRuns: <<>> before the call
    rebuilt,            \* result of a second call of buildTestRuns on cfg
    settings,           \* settings map handed to kafka Collector.Configure
    delegated,          \* what Configure did: the map passed on, or its error
    returned,           \* what each finished testRun.Run returned, in order (history)
    cancelledInTest,    \* the context was cancelled while test was running (history)
    waitsAfterDead      \* discovery waits completed since the dead flag was set
                        \* during the discovery loop; -1: not set during it (history)

vars == <<testRuns, runIdx, fs, ctxDone, pc, stepIdx, err, runErr, goroutinePool,
          panicking, runResult, batchErr, cleanupFns, bg, goroutinePoolDead,
          attempts, containers, observedReady, poll, upErr, cleanupIdx, errs,
          deferErrs, elapsed, tickPending, trace, engineOps, invoked,
          cancelledInWait, existed, cfg, built, rebuilt, settings, delegated,
          returned, cancelledInTest, waitsAfterDead>>

(***************************************************************************)
(* Bounds of the model.                                                    *)
(***************************************************************************)
MaxRuns == 2
MaxContainers == 2
MaxTests == 2
\* the history counter waitsAfterDead stops counting here
MaxWaitsCounted == 2
\* longest list of topics, longest list of user-supplied queries
MaxTopics == 2
MaxQueries == 2

\* `for range 30` of the discovery loop
DiscoveryAttempts == 30

Containers == 1..MaxContainers

(***************************************************************************)
(* Errors.  An error value is the chain of messages wrapped around it      *)
(* (fmt.Errorf with %w) and the set of errors at the bottom of the chain   *)
(* (errors.Join keeps all of them).  Nil is the nil error.                 *)
(***************************************************************************)
Nil == [wraps |-> <<>>, causes |-> {}]

NewErr(kind, id) == [wraps |-> <<>>, causes |-> {<<kind, id>>}]

Wrap(msg, e) == [wraps |-> <<msg>> \o e.wraps, causes |-> e.causes]

\* errors.Join: nil values are discarded, nil when none is left
Join(es) ==
    IF \A i \in DOMAIN es : es[i] = Nil
    THEN Nil
    ELSE [wraps |-> <<>>, causes |-> UNION {es[i].causes : i \in DOMAIN es}]

CtxErr == NewErr("context canceled", 0)

(***************************************************************************)
(* Strings that end up in an output path are sequences of characters, so   *)
(* that formatting is concatenation and two different (scenario, tool)     *)
(* pairs can format to the same text.                                      *)
(***************************************************************************)
\* now.Format("20060102150405"): digits only, the same for every run of a batch
Timestamp == <<"2", "0", "2", "5">>

\* opt.OutPath
OutRoot == <<"o">>

\* fmt.Sprintf("%s_%s_%s", ts, name, tool)
Sprintf3(ts, name, tool) == ts \o <<"_">> \o name \o <<"_">> \o tool

\* filepath.Join(dir, elem) for elements without separators or dots
FilepathJoin(dir, elem) == dir \o <<"/">> \o elem

RunOutPath(name, tool) == FilepathJoin(OutRoot, Sprintf3(Timestamp, name, tool))

(***************************************************************************)
(* buildTestRuns.  cfg.Infrastructure, cfg.Tools, t.Infrastructure and     *)
(* t.Tools are Go maps (functions from names to service configurations);   *)
(* `range` over a map and maps.Keys visit the keys in an unspecified       *)
(* order, so every enumeration is a possible one and buildTestRuns is the  *)
(* set of the results the build can produce.                               *)
(***************************************************************************)
\* the orders in which a range over a map with key set S can visit it
Perms(S) ==
    {p \in [1..Cardinality(S) -> S] : \A i, j \in DOMAIN p : i # j => p[i] # p[j]}

\* values of map m in key order ks
ValuesIn(m, ks) == [i \in DOMAIN ks |-> m[ks[i]]]

\* lines 92-104: global tool config (if present) then scenario tool config (if present)
ToolConfigs(c, t, tool) ==
    (IF tool \in DOMAIN c.Tools THEN <<c.Tools[tool]>> ELSE <<>>)
    \o (IF tool \in DOMAIN t.Tools THEN <<t.Tools[tool]>> ELSE <<>>)

\* lines 84-89: keys of cfg.Tools, then the keys of t.Tools missing from cfg.Tools
ToolNames(c, t) ==
    {gk \o tk : gk \in Perms(DOMAIN c.Tools),
                tk \in Perms(DOMAIN t.Tools \ DOMAIN c.Tools)}

\* lines 72-78: global infrastructure then scenario infrastructure
MergedInfra(c, t) ==
    {ValuesIn(c.Infrastructure, gi) \o ValuesIn(t.Infrastructure, ti) :
        gi \in Perms(DOMAIN c.Infrastructure),
        ti \in Perms(DOMAIN t.Infrastructure)}

\* lines 106-118
NewTestRun(c, t, tool, infra) ==
    [Infrastructure |-> infra,
     Tools          |-> ToolConfigs(c, t, tool),
     Metrics        |-> c.Metrics \o t.Metrics,
     Name           |-> t.Name,
     Tool           |-> tool,
     OutPath        |-> RunOutPath(t.Name, tool)]

\* lines 70-119, one iteration of the loop over cfg.Tests
RunsOfTest(c, t) ==
    {[i \in DOMAIN names |-> NewTestRun(c, t, names[i], infra)] :
        names \in ToolNames(c, t), infra \in MergedInfra(c, t)}

RECURSIVE BuildFrom(_, _)
BuildFrom(c, i) ==
    IF i > Len(c.Tests)
    THEN {<<>>}
    ELSE {head \o tail : head \in RunsOfTest(c, c.Tests[i]),
                         tail \in BuildFrom(c, i + 1)}

buildTestRuns(c) == BuildFrom(c, 1)

(***************************************************************************)
(* Configurations.                                                         *)
(***************************************************************************)
NoMap == <<>>

\* a map of service configurations: the DockerCompose path of service n
\* declared at scope (global or a scenario) is written <<scope, n>>
SvcMap(names, scope) == [n \in names |-> [DockerCompose |-> <<scope, n>>]]

Test(name, infra, tools) ==
    [Name |-> name, Infrastructure |-> infra, Tools |-> tools, Metrics |-> <<>>]

\* the scenarios of a configuration have pairwise different names
DistinctNames(ts) == \A i, j \in DOMAIN ts : i # j => ts[i].Name # ts[j].Name

SeqsUpTo(n, S) == UNION {[1..k -> S] : k \in 0..n}

\* Configurations of the batches whose runs are executed: no global tool, an
\* optional infrastructure service, up to MaxRuns scenarios with one tool each:
\* scenario a_b with tool c first, then scenario a with tool b_c or scenario b
\* with tool c.
RunTests ==
    {Test(<<"a", "_", "b">>, NoMap, SvcMap({<<"c">>}, "scenario")),
     Test(<<"a">>, NoMap, SvcMap({<<"b", "_", "c">>}, "scenario")),
     Test(<<"b">>, NoMap, SvcMap({<<"c">>}, "scenario"))}

RunConfigs ==
    {[Infrastructure |-> infra,
      Tools          |-> NoMap,
      Metrics        |-> <<>>,
      Tests          |-> ts] :
        infra \in {NoMap, SvcMap({<<"k">>}, "global")},
        ts \in {q \in SeqsUpTo(MaxRuns, RunTests) :
                   /\ DistinctNames(q)
                   /\ q = <<>> \/ q[1].Name = <<"a", "_", "b">>}}

\* Configurations handed to buildTestRuns alone: up to MaxTests scenarios
\* named a, a_b or b, tools named c or b_c declared globally or by a scenario,
\* infrastructure services k and z.
ScenarioNames == {<<"a">>, <<"a", "_", "b">>, <<"b">>}
ToolNameSet == {<<"c">>, <<"b", "_", "c">>}

BuildTests ==
    {Test(name, infra, tools) :
        name \in ScenarioNames,
        infra \in {NoMap, SvcMap({<<"k">>}, "scenario")},
        tools \in {NoMap, SvcMap({<<"c">>}, "scenario"),
                   SvcMap({<<"b", "_", "c">>}, "scenario")}}

BuildConfigs ==
    {[Infrastructure |-> infra,
      Tools          |-> tools,
      Metrics        |-> <<>>,
      Tests          |-> ts] :
        infra \in {NoMap, SvcMap({<<"k">>}, "global"),
                   SvcMap({<<"k">>, <<"z">>}, "global")},
        tools \in {SvcMap(names, "global") : names \in SUBSET ToolNameSet},
        ts \in {q \in SeqsUpTo(MaxTests, BuildTests) : DistinctNames(q)}}

(***************************************************************************)
(* The kafka collector (package kafka, in the text of                      *)
(* example/bench-kafka-kafka/bench.yml).  A settings map is a function     *)
(* from keys to values; a formatted string is the sequence of its pieces.  *)
(***************************************************************************)
\* Configure has not been called
NotConfigured == [called |-> FALSE, settings |-> <<>>, err |-> Nil, given |-> <<>>]

\* delete(m, k)
Delete(m, k) == [x \in DOMAIN m \ {k} |-> m[x]]

\* m[k] = v
Put(m, k, v) == [x \in DOMAIN m \cup {k} |-> IF x = k THEN v ELSE m[x]]

\* the dynamic types a "queries" value can have: the slice type Configure
\* asserts, and the type a YAML or JSON decoder gives a list
SliceOfMaps == "[]map[string]any"
SliceOfAny == "[]any"

\* %q of a topic
Quote(topic) == <<"\"", topic, "\"">>

\* the three queries of a topic, lines 118-137
TopicQueries(topic) ==
    <<[name     |-> <<"msg-rate-in-per-second", "[", topic, "]">>,
       query    |-> <<"rate(kafka_server_messages_in_per_sec_per_topic_total{topic=">>
                    \o Quote(topic) \o <<"}[2s])">>,
       unit     |-> "msg/s",
       interval |-> "1s"],
      [name     |-> <<"msg-megabytes-in-per-second", "[", topic, "]">>,
       query    |-> <<"rate(kafka_server_total_bytes_in_per_sec_per_topic{topic=">>
                    \o Quote(topic) \o <<"}[2s])/1048576">>,
       unit     |-> "MB/s",
       interval |-> "1s"],
      [name     |-> <<"msg-megabytes-out-per-second", "[", topic, "]">>,
       query    |-> <<"rate(kafka_server_total_bytes_out_per_sec_per_topic{topic=">>
                    \o Quote(topic) \o <<"}[2s])/1048576">>,
       unit     |-> "MB/s",
       interval |-> "1s"]>>

\* the loop of lines 116-138 from topic i on
RECURSIVE SynthesizedFrom(_, _)
SynthesizedFrom(topics, i) ==
    IF i > Len(topics)
    THEN <<>>
    ELSE TopicQueries(topics[i]) \o SynthesizedFrom(topics, i + 1)

\* parseConfig of package kafka: the topics of the settings, or a failure
\* when the topics entry is not a list of names
parseKafkaConfig(m) ==
    IF "topics" \notin DOMAIN m
    THEN [err |-> Nil, Topics |-> <<>>]
    ELSE IF ~m["topics"].wellFormed
    THEN [err |-> Wrap("failed to decode settings", NewErr("decode", 0)), Topics |-> <<>>]
    ELSE [err |-> Nil, Topics |-> m["topics"].names]

\* variant of WithoutTopics: the topics entry is left in the map
WithoutTopicsKept(m) == m

\* line 114
WithoutTopics(m) == Delete(m, "topics")

\* lines 140-145: the user's queries, if the entry has the asserted type
SettingsQueries(m) ==
    IF "queries" \in DOMAIN m /\ m["queries"].type = SliceOfMaps
    THEN m["queries"].elems
    ELSE <<>>

\* parseConfig of package prometheus: strict decoding of the settings
\* (ErrorUnused), then the URL
parseConfig(m) ==
    IF ~(DOMAIN m \subseteq {"url", "scrape-interval", "queries"})
    THEN Wrap("failed to decode settings", NewErr("unused keys", 0))
    ELSE Nil

(***************************************************************************)
(* testRun.Run: the forward walk and the deferred cleanup.                 *)
(***************************************************************************)
\* lines 181-191
steps ==
    <<"pre-infrastructure", "infrastructure", "post-infrastructure",
      "pre-tool", "tool", "post-tool",
      "pre-test", "test", "post-test">>

\* lines 160-164
cleanupSteps == <<"pre-cleanup", "cleanup", "post-cleanup">>

Stages == {"infrastructure", "tool"}

NoPolls == [c \in Containers |-> "none"]
NoTasks == [s \in Stages |-> "none"]

\* variant of OutPathExists: the guard of line 148 is missing, MkdirAll accepts
\* a folder that exists
OutPathExistsNever(path) == FALSE

\* os.Stat(r.OutPath) returns no error, line 148
OutPathExists(path) == path \in fs

\* line 149
AlreadyExists == NewErr("output folder already exists", 0)

\* line 152
MkdirFailed == Wrap("failed to create output folder", NewErr("mkdir", 0))

\* collectDockerComposeFiles
collectDockerComposeFiles(cfgs) == [i \in DOMAIN cfgs |-> cfgs[i].DockerCompose]

\* variant of Backward: the functions are visited in registration order
BackwardInOrder(fns) == fns

\* slices.Backward
Backward(fns) == [i \in DOMAIN fns |-> fns[Len(fns) + 1 - i]]

\* the cleanup functions dockerComposeUpWait registers, lines 415-417 and 431-440
CloseFn(stage) == [kind |-> "close", stage |-> stage]
DownFn(stage) == [kind |-> "down", stage |-> stage]

\* variant of DeferredErr: a cleanup error replaces the error of the forward walk
DeferredErrCleanupFirst(e, cerrs) == IF cerrs # <<>> THEN Join(cerrs) ELSE e

\* lines 172-178: the result of Run once the cleanup steps have run
DeferredErr(e, cerrs) == IF e = Nil THEN Join(cerrs) ELSE e

\* variant of StepReturn: the loop records the error and goes on to the next step
StepReturnGoesOn(e) ==
    /\ err' = e
    /\ IF stepIdx = Len(steps)
       THEN /\ pc' = "defer"
            /\ stepIdx' = 1
       ELSE /\ pc' = "step"
            /\ stepIdx' = stepIdx + 1

\* a step of the forward walk has returned e, lines 194-202
StepReturn(e) ==
    IF e # Nil
    THEN /\ err' = e
         /\ pc' = "defer"
         /\ stepIdx' = 1
    ELSE IF stepIdx = Len(steps)
    THEN /\ err' = Nil
         /\ pc' = "defer"
         /\ stepIdx' = 1
    ELSE /\ err' = err
         /\ pc' = "step"
         /\ stepIdx' = stepIdx + 1

\* variant of StepPanic: the cleanup is not deferred, a panic leaves Run at once
StepPanicNoDefer ==
    /\ panicking' = TRUE
    /\ pc' = "run_ret"
    /\ stepIdx' = stepIdx
    /\ err' = err

\* a step of the forward walk panics: the deferred function (lines 158-179) runs next
StepPanic ==
    /\ panicking' = TRUE
    /\ pc' = "defer"
    /\ stepIdx' = 1
    /\ err' = err

\* a cleanup step has returned e to the deferred function, lines 166-179
DeferReturn(e) ==
    LET cerrs == IF e # Nil THEN Append(deferErrs, e) ELSE deferErrs IN
    /\ deferErrs' = cerrs
    /\ IF stepIdx < Len(cleanupSteps)
       THEN /\ stepIdx' = stepIdx + 1
            /\ pc' = "defer"
            /\ UNCHANGED <<runErr, runResult>>
       ELSE /\ stepIdx' = stepIdx
            /\ pc' = "run_ret"
            /\ IF panicking
               THEN /\ runResult' = "panic"
                    /\ runErr' = runErr
               ELSE /\ runResult' = "returned"
                    /\ runErr' = DeferredErr(err, cerrs)

AtStep(name) == pc = "step" /\ steps[stepIdx] = name
AtCleanupStep(name) == pc = "defer" /\ cleanupSteps[stepIdx] = name

\* the stage whose dockerComposeUpWait is running
CurStage == steps[stepIdx]

\* variables no action of a batch changes
aux == <<rebuilt, settings, delegated>>
\* history variables
gh == <<returned, cancelledInTest, waitsAfterDead>>
drv == <<testRuns, runIdx, batchErr, goroutinePool, existed, cfg, built, aux>>
upv == <<attempts, containers, observedReady, poll, upErr>>
clv == <<cleanupIdx, errs, deferErrs, invoked>>
tmv == <<elapsed, tickPending>>
tsk == <<bg, goroutinePoolDead>>

(***************************************************************************)
(* The batch driver Run, lines 45-64.                                      *)
(***************************************************************************)
Run ==
    /\ pc = "main"
    /\ \/ /\ batchErr' = Wrap("failed to create output directory", NewErr("mkdir", 0))
          /\ pc' = "done"
          /\ testRuns' = testRuns
       \/ /\ testRuns' \in buildTestRuns(cfg)
          /\ pc' = "driver"
          /\ batchErr' = batchErr
    /\ UNCHANGED <<runIdx, fs, ctxDone, stepIdx, err, runErr, goroutinePool,
                   panicking, runResult, cleanupFns, tsk, upv, clv, tmv, trace,
                   engineOps, cancelledInWait, existed, cfg, built, aux, gh>>

\* variant of RunLoop: the loop goes on to the next run after a run failed
RunLoopGoesOn ==
    /\ \/ /\ pc = "run_ret"
          /\ returned' = IF runResult = "returned"
                         THEN Append(returned, runErr)
                         ELSE returned
          /\ IF runResult = "panic"
             THEN /\ pc' = "done"
                  /\ batchErr' = NewErr("panic", 0)
             ELSE /\ pc' = "driver"
                  /\ batchErr' = batchErr
       \/ /\ pc = "driver"
          /\ runIdx = Len(testRuns)
          /\ pc' = "done"
          /\ batchErr' = Nil
          /\ returned' = returned
    /\ UNCHANGED <<testRuns, runIdx, fs, ctxDone, stepIdx, err, runErr,
                   goroutinePool, panicking, runResult, cleanupFns, tsk, upv, clv,
                   tmv, trace, engineOps, cancelledInWait, existed, cfg, built, aux,
                   cancelledInTest, waitsAfterDead>>

\* lines 57-63: the run returned, or no run is left
RunLoop ==
    /\ \/ /\ pc = "run_ret"
          /\ returned' = IF runResult = "returned"
                         THEN Append(returned, runErr)
                         ELSE returned
          /\ IF runResult = "panic"
             THEN /\ pc' = "done"
                  /\ batchErr' = NewErr("panic", 0)
             ELSE IF runErr # Nil
             THEN /\ pc' = "done"
                  /\ batchErr' = Wrap("failed to run test", runErr)
             ELSE /\ pc' = "driver"
                  /\ batchErr' = batchErr
       \/ /\ pc = "driver"
          /\ runIdx = Len(testRuns)
          /\ pc' = "done"
          /\ batchErr' = Nil
          /\ returned' = returned
    /\ UNCHANGED <<testRuns, runIdx, fs, ctxDone, stepIdx, err, runErr,
                   goroutinePool, panicking, runResult, cleanupFns, tsk, upv, clv,
                   tmv, trace, engineOps, cancelledInWait, existed, cfg, built, aux,
                   cancelledInTest, waitsAfterDead>>

(***************************************************************************)
(* testRun.Run, lines 144-156: a fresh testRun, the output folder guard.   *)
(***************************************************************************)
testRunRun ==
    /\ pc = "driver"
    /\ runIdx < Len(testRuns)
    /\ runIdx' = runIdx + 1
    /\ cleanupFns' = <<>>
    /\ bg' = NoTasks
    /\ goroutinePoolDead' = FALSE
    /\ panicking' = FALSE
    /\ attempts' = 0
    /\ containers' = {}
    /\ observedReady' = {}
    /\ poll' = NoPolls
    /\ upErr' = Nil
    /\ cleanupIdx' = 0
    /\ errs' = <<>>
    /\ deferErrs' = <<>>
    /\ invoked' = <<>>
    /\ elapsed' = FALSE
    /\ tickPending' = FALSE
    /\ trace' = <<>>
    /\ engineOps' = {}
    /\ cancelledInWait' = FALSE
    /\ cancelledInTest' = FALSE
    /\ waitsAfterDead' = -1
    /\ stepIdx' = 1
    /\ LET r == testRuns[runIdx + 1] IN
       /\ existed' = (r.OutPath \in fs)
       /\ IF OutPathExists(r.OutPath)
          THEN /\ err' = AlreadyExists
               /\ runErr' = AlreadyExists
               /\ runResult' = "returned"
               /\ pc' = "run_ret"
               /\ fs' = fs
               /\ goroutinePool' = "nil"
          ELSE \/ /\ err' = MkdirFailed
                  /\ runErr' = MkdirFailed
                  /\ runResult' = "returned"
                  /\ pc' = "run_ret"
                  /\ fs' = fs
                  /\ goroutinePool' = "nil"
               \/ /\ fs' = fs \cup {r.OutPath}
                  /\ err' = Nil
                  /\ runErr' = Nil
                  /\ runResult' = "none"
                  /\ pc' = "step"
                  /\ goroutinePool' = "created"
    /\ UNCHANGED <<testRuns, batchErr, ctxDone, cfg, built, aux, returned>>

(***************************************************************************)
(* The steps without an action of their own, lines 207-214, 237-253,       *)
(* 278-294, 324-340 and 355-362: loggerForStep, return nil.                *)
(***************************************************************************)
NoopStep(name) ==
    /\ AtStep(name)
    /\ trace' = Append(trace, name)
    /\ StepReturn(Nil)
    /\ UNCHANGED <<drv, runErr, fs, ctxDone, panicking, runResult, cleanupFns, tsk, upv,
                   clv, tmv, engineOps, cancelledInWait, gh>>

preInfrastructure == NoopStep("pre-infrastructure")
postInfrastructure == NoopStep("post-infrastructure")
preTool == NoopStep("pre-tool")
postTool == NoopStep("post-tool")
preTest == NoopStep("pre-test")
postTest == NoopStep("post-test")

(***************************************************************************)
(* infrastructure and tool, lines 216-235 and 255-276, up to the point     *)
(* where dockerComposeUpWait starts to wait (lines 404-442).               *)
(***************************************************************************)
StageFailMsg(stage) ==
    IF stage = "infrastructure"
    THEN "failed to start infrastructure"
    ELSE "failed to start tools"

\* lines 229-231 and 270-272
StageErr(stage, e) == IF e = Nil THEN Nil ELSE Wrap(StageFailMsg(stage), e)

\* variant of UpWaitCleanupFns: the bring-down is not registered
UpWaitCleanupFnsNoDown(stage) == <<CloseFn(stage)>>

\* variant of UpWaitCleanupFns: the bring-down is registered before the close
UpWaitCleanupFnsDownFirst(stage) == <<DownFn(stage), CloseFn(stage)>>

\* lines 415-417 and 431-440: close the log file, bring the composition down
UpWaitCleanupFns(stage) == <<CloseFn(stage), DownFn(stage)>>

\* r.Go, lines 376-384: the task's failure marks the pool dead
GoTaskDone(dead, failed) == dead \/ failed

StartStage(stage, cfgs) ==
    /\ AtStep(stage)
    /\ trace' = Append(trace, stage)
    /\ IF Len(collectDockerComposeFiles(cfgs)) = 0
       THEN /\ StepReturn(Nil)
            /\ UNCHANGED <<cleanupFns, bg, engineOps, attempts>>
       ELSE \/ /\ StepReturn(StageErr(stage,
                      Wrap("failed to create log file", NewErr("create", stage))))
               /\ UNCHANGED <<cleanupFns, bg, engineOps, attempts>>
            \/ /\ cleanupFns' = cleanupFns \o UpWaitCleanupFns(stage)
               /\ bg' = [bg EXCEPT ![stage] = "running"]
               /\ engineOps' = engineOps \cup {"ComposeUp"}
               /\ attempts' = 0
               /\ pc' = "up_discover"
               /\ UNCHANGED <<stepIdx, err>>
    /\ UNCHANGED <<drv, runErr, fs, ctxDone, panicking, runResult, goroutinePoolDead,
                   containers, observedReady, poll, upErr, clv, tmv, cancelledInWait, gh>>

infrastructure == StartStage("infrastructure", testRuns[runIdx].Infrastructure)

tool == StartStage("tool", testRuns[runIdx].Tools)

\* dockerComposeUpWait has returned upErr: lines 229-234 and 270-275
stageReturn ==
    /\ pc = "stage_ret"
    /\ StepReturn(StageErr(CurStage, upErr))
    /\ attempts' = 0
    /\ containers' = {}
    /\ observedReady' = {}
    /\ poll' = NoPolls
    /\ upErr' = Nil
    /\ waitsAfterDead' = -1
    /\ UNCHANGED <<drv, runErr, fs, ctxDone, panicking, runResult, cleanupFns, tsk,
                   clv, tmv, trace, engineOps, cancelledInWait, returned,
                   cancelledInTest>>

\* the ComposeUp task of a stage ends, lines 376-384 and 419-429
composeUpDone(stage) ==
    /\ bg[stage] = "running"
    /\ \E failed \in BOOLEAN :
          /\ bg' = [bg EXCEPT ![stage] = IF failed THEN "failed" ELSE "ok"]
          /\ goroutinePoolDead' = GoTaskDone(goroutinePoolDead, failed)
          /\ waitsAfterDead' =
                IF failed /\ ~goroutinePoolDead /\ pc \in {"up_discover", "up_ps"}
                THEN 0
                ELSE waitsAfterDead
    /\ UNCHANGED <<drv, runErr, fs, ctxDone, pc, stepIdx, err, panicking, runResult,
                   cleanupFns, upv, clv, tmv, trace, engineOps, cancelledInWait,
                   returned, cancelledInTest>>

(***************************************************************************)
(* dockerComposeUpWait: the discovery loop, lines 445-475.                 *)
(***************************************************************************)
\* the select of lines 446-450: the timer is started on entry, so it wins only
\* if it fires before the context is cancelled
upSelect ==
    /\ pc = "up_discover"
    /\ IF ctxDone
       THEN /\ upErr' = CtxErr
            /\ pc' = "stage_ret"
       ELSE /\ upErr' = upErr
            /\ pc' = "up_ps"
    /\ waitsAfterDead' =
          IF ~ctxDone /\ waitsAfterDead \in 0..(MaxWaitsCounted - 1)
          THEN waitsAfterDead + 1
          ELSE waitsAfterDead
    /\ UNCHANGED <<drv, runErr, fs, ctxDone, stepIdx, err, panicking, runResult, cleanupFns,
                   tsk, attempts, containers, observedReady, poll, clv, tmv, trace,
                   engineOps, cancelledInWait, returned, cancelledInTest>>

\* lines 452-470
upComposePs ==
    /\ pc = "up_ps"
    /\ engineOps' = engineOps \cup {"ComposePs"}
    /\ attempts' = attempts + 1
    /\ \/ /\ upErr' = Wrap("failed to list containers", NewErr("compose ps", 0))
          /\ pc' = "stage_ret"
          /\ containers' = containers
       \/ \E cs \in SUBSET Containers :
             /\ containers' = cs
             /\ upErr' = upErr
             /\ pc' = IF cs # {} \/ attempts + 1 = DiscoveryAttempts
                      THEN "up_check"
                      ELSE "up_discover"
    /\ UNCHANGED <<drv, runErr, fs, ctxDone, stepIdx, err, panicking, runResult, cleanupFns,
                   tsk, observedReady, poll, clv, tmv, trace, cancelledInWait, gh>>

\* lines 472-505: the dead flag is read once, then one poll per container starts
upCheck ==
    /\ pc = "up_check"
    /\ IF goroutinePoolDead
       THEN /\ upErr' = NewErr("failed to start containers", 0)
            /\ pc' = "stage_ret"
            /\ poll' = poll
       ELSE /\ poll' = [c \in Containers |-> IF c \in containers THEN "inspect" ELSE "none"]
            /\ pc' = "up_polls"
            /\ upErr' = upErr
    /\ attempts' = 0
    /\ UNCHANGED <<drv, runErr, fs, ctxDone, stepIdx, err, panicking, runResult, cleanupFns,
                   tsk, containers, observedReady, clv, tmv, trace, engineOps,
                   cancelledInWait, gh>>

(***************************************************************************)
(* dockerComposeUpWait: the readiness polls, lines 477-513.                *)
(***************************************************************************)
\* resp.State of ContainerInspect; Health "none" is the nil pointer
Responses ==
    [Dead : BOOLEAN, Running : BOOLEAN,
     Health : {"none", "starting", "healthy", "HEALTHY", "unhealthy"}]

\* strings.EqualFold(status, "healthy")
EqualFoldHealthy(status) == status \in {"healthy", "HEALTHY"}

\* the switch of lines 485-494 and line 496, which reads resp.State.Health.Status
PollOutcome(resp) ==
    CASE resp.Dead -> "dead"
      [] ~resp.Dead /\ resp.Health # "none" /\ EqualFoldHealthy(resp.Health) -> "ready"
      [] ~resp.Dead /\ resp.Health = "none" /\ resp.Running -> "ready"
      [] ~resp.Dead /\ resp.Health = "none" /\ ~resp.Running -> "panic"
      [] OTHER -> "wait"

PollTerminal == {"ready", "dead", "err", "canceled", "panic"}

\* a container is ready: it is not dead, and its health check reports healthy
\* or it has none and is running (a dead container is a failure whatever its
\* last health status says)
IsReady(resp) ==
    /\ ~resp.Dead
    /\ \/ resp.Health \in {"healthy", "HEALTHY"}
       \/ resp.Health = "none" /\ resp.Running

\* lines 481-494
pollInspect(c) ==
    /\ pc = "up_polls"
    /\ poll[c] = "inspect"
    /\ engineOps' = engineOps \cup {"ContainerInspect"}
    /\ \/ /\ poll' = [poll EXCEPT ![c] = "err"]
          /\ observedReady' = observedReady
       \/ \E resp \in Responses :
             /\ poll' = [poll EXCEPT ![c] = PollOutcome(resp)]
             /\ observedReady' = IF IsReady(resp)
                                 THEN observedReady \cup {c}
                                 ELSE observedReady
    /\ UNCHANGED <<drv, runErr, fs, ctxDone, pc, stepIdx, err, panicking, runResult,
                   cleanupFns, tsk, attempts, containers, upErr, clv, tmv, trace,
                   cancelledInWait, gh>>

\* the select of lines 497-501
pollSelect(c) ==
    /\ pc = "up_polls"
    /\ poll[c] = "wait"
    /\ poll' = [poll EXCEPT ![c] = IF ctxDone THEN "canceled" ELSE "inspect"]
    /\ UNCHANGED <<drv, runErr, fs, ctxDone, pc, stepIdx, err, panicking, runResult,
                   cleanupFns, tsk, attempts, containers, observedReady, upErr, clv,
                   tmv, trace, engineOps, cancelledInWait, gh>>

\* the error a finished poll returned
PollErr(c) ==
    CASE poll[c] = "dead" -> NewErr("container is dead", c)
      [] poll[c] = "err" -> NewErr("inspect", 0)
      [] poll[c] = "canceled" -> CtxErr
      [] OTHER -> Nil

\* variant of AllPollsDone: wg.Wait returns once some poll has returned
AllPollsDoneAny == \E c \in containers : poll[c] \in PollTerminal

\* wg.Wait returns once every poll has returned
AllPollsDone == \A c \in containers : poll[c] \in PollTerminal

\* the errors of the polls, joined (ErrorPool.Wait)
WgWaitErr ==
    LET es == {PollErr(c) : c \in containers} IN
    IF es \subseteq {Nil}
    THEN Nil
    ELSE [wraps |-> <<>>, causes |-> UNION {e.causes : e \in es}]

\* lines 507-512; a panic of a poll is raised again by wg.Wait
upWait ==
    /\ pc = "up_polls"
    /\ AllPollsDone
    /\ IF \E c \in containers : poll[c] = "panic"
       THEN /\ StepPanic
            /\ attempts' = 0
            /\ containers' = {}
            /\ observedReady' = {}
            /\ poll' = NoPolls
            /\ upErr' = upErr
       ELSE /\ upErr' = IF WgWaitErr = Nil
                        THEN Nil
                        ELSE Wrap("failed to start containers", WgWaitErr)
            /\ pc' = "stage_ret"
            /\ UNCHANGED <<stepIdx, err, panicking, attempts, containers,
                           observedReady, poll>>
    /\ UNCHANGED <<drv, runErr, fs, ctxDone, runResult, cleanupFns, tsk, clv, tmv, trace,
                   engineOps, cancelledInWait, gh>>

(***************************************************************************)
(* test, lines 296-322.  testCompleted and logTicker are created before    *)
(* the loop, so either may already hold a value when the select is         *)
(* entered; a select entered with several ready cases picks any of them,   *)
(* a parked select is completed by the first event.                        *)
(***************************************************************************)
test ==
    /\ AtStep("test")
    /\ trace' = Append(trace, "test")
    /\ elapsed' = FALSE
    /\ tickPending' = FALSE
    /\ pc' = "test_log"
    /\ UNCHANGED <<drv, runErr, fs, ctxDone, stepIdx, err, panicking, runResult, cleanupFns,
                   tsk, upv, clv, engineOps, cancelledInWait, gh>>

\* the cases of the select of lines 311-317 that are ready
ReadyCases ==
    (IF ctxDone THEN {"ctx"} ELSE {})
    \cup (IF tickPending THEN {"tick"} ELSE {})
    \cup (IF elapsed THEN {"done"} ELSE {})

\* the select is entered
testSelect ==
    /\ pc = "test_log"
    /\ IF ReadyCases = {}
       THEN /\ pc' = "test_parked"
            /\ UNCHANGED <<stepIdx, err, tmv>>
       ELSE \E k \in ReadyCases :
               CASE k = "ctx" -> /\ StepReturn(CtxErr)
                                 /\ elapsed' = FALSE
                                 /\ tickPending' = FALSE
                 [] k = "tick" -> /\ tickPending' = FALSE
                                  /\ UNCHANGED <<pc, stepIdx, err, elapsed>>
                 [] OTHER -> /\ StepReturn(Nil)
                             /\ elapsed' = FALSE
                             /\ tickPending' = FALSE
    /\ UNCHANGED <<drv, runErr, fs, ctxDone, panicking, runResult, cleanupFns, tsk, upv,
                   clv, trace, engineOps, cancelledInWait, gh>>

\* the timer of time.After(r.Duration) fires
testCompleted ==
    /\ ~elapsed
    /\ \/ /\ pc = "test_log"
          /\ elapsed' = TRUE
          /\ UNCHANGED <<pc, stepIdx, err, tickPending>>
       \/ /\ pc = "test_parked"
          /\ ~ctxDone
          /\ StepReturn(Nil)
          /\ UNCHANGED <<elapsed, tickPending>>
    /\ UNCHANGED <<drv, runErr, fs, ctxDone, panicking, runResult, cleanupFns, tsk, upv,
                   clv, trace, engineOps, cancelledInWait, gh>>

\* logTicker ticks
logTick ==
    /\ ~tickPending
    /\ \/ /\ pc = "test_log"
          /\ tickPending' = TRUE
          /\ pc' = pc
       \/ /\ pc = "test_parked"
          /\ ~ctxDone
          /\ pc' = "test_log"
          /\ tickPending' = tickPending
    /\ UNCHANGED <<drv, runErr, fs, ctxDone, stepIdx, err, panicking, runResult, cleanupFns,
                   tsk, upv, clv, elapsed, trace, engineOps, cancelledInWait, gh>>

\* the parked select is completed by ctx.Done
testCancelled ==
    /\ pc = "test_parked"
    /\ ctxDone
    /\ StepReturn(CtxErr)
    /\ UNCHANGED <<drv, runErr, fs, ctxDone, panicking, runResult, cleanupFns, tsk, upv,
                   clv, tmv, trace, engineOps, cancelledInWait, gh>>

(***************************************************************************)
(* The cleanup steps, lines 333-362.                                       *)
(***************************************************************************)
NoopCleanupStep(name) ==
    /\ AtCleanupStep(name)
    /\ trace' = Append(trace, name)
    /\ DeferReturn(Nil)
    /\ UNCHANGED <<drv, err, fs, ctxDone, panicking, cleanupFns, tsk, upv, cleanupIdx,
                   errs, invoked, tmv, engineOps, cancelledInWait, gh>>

preCleanup == NoopCleanupStep("pre-cleanup")
postCleanup == NoopCleanupStep("post-cleanup")

\* lines 342-348
cleanup ==
    /\ AtCleanupStep("cleanup")
    /\ trace' = Append(trace, "cleanup")
    /\ pc' = "cleanup_loop"
    /\ cleanupIdx' = 1
    /\ errs' = <<>>
    /\ UNCHANGED <<drv, runErr, fs, ctxDone, stepIdx, err, panicking, runResult, cleanupFns,
                   tsk, upv, deferErrs, invoked, tmv, engineOps, cancelledInWait, gh>>

\* the error of a cleanup function that fails
FnErr(fn) == NewErr(fn.kind, fn.stage)

\* lines 349-351: the next function of slices.Backward(r.cleanupFns) is called
cleanupCall ==
    /\ pc = "cleanup_loop"
    /\ cleanupIdx <= Len(cleanupFns)
    /\ LET fn == Backward(cleanupFns)[cleanupIdx] IN
       /\ engineOps' = IF fn.kind = "down"
                       THEN engineOps \cup {"ComposeDown"}
                       ELSE engineOps
       /\ \E failed \in BOOLEAN :
             /\ invoked' = Append(invoked, [fn |-> fn, failed |-> failed])
             /\ errs' = Append(errs, IF failed THEN FnErr(fn) ELSE Nil)
    /\ cleanupIdx' = cleanupIdx + 1
    /\ UNCHANGED <<drv, runErr, fs, ctxDone, pc, stepIdx, err, panicking, runResult,
                   cleanupFns, tsk, upv, deferErrs, tmv, trace, cancelledInWait, gh>>

\* line 352
cleanupReturn ==
    /\ pc = "cleanup_loop"
    /\ cleanupIdx > Len(cleanupFns)
    /\ DeferReturn(Join(errs))
    /\ UNCHANGED <<drv, err, fs, ctxDone, panicking, cleanupFns, tsk, upv, cleanupIdx,
                   errs, invoked, tmv, trace, engineOps, cancelledInWait, gh>>

(***************************************************************************)
(* The caller cancels the context.                                         *)
(***************************************************************************)
\* some goroutine of the run is parked in a select that watches ctx.Done
Parked ==
    \/ pc = "up_discover"
    \/ pc = "up_polls" /\ \E c \in containers : poll[c] = "wait"
    \/ pc = "test_parked"

Cancel ==
    /\ ~ctxDone
    /\ pc # "done"
    /\ ctxDone' = TRUE
    /\ cancelledInWait' = (cancelledInWait \/ Parked)
    /\ cancelledInTest' = (cancelledInTest \/ pc \in {"test_log", "test_parked"})
    /\ UNCHANGED <<drv, runErr, fs, pc, stepIdx, err, panicking, runResult, cleanupFns,
                   tsk, upv, clv, tmv, trace, engineOps, returned, waitsAfterDead>>

(***************************************************************************)
(* The specification of a batch.                                           *)
(***************************************************************************)
InitRun ==
    /\ testRuns = <<>>
    /\ runIdx = 0
    /\ ctxDone = FALSE
    /\ stepIdx = 1
    /\ err = Nil
    /\ runErr = Nil
    /\ goroutinePool = "nil"
    /\ existed = FALSE
    /\ observedReady = {}
    /\ panicking = FALSE
    /\ runResult = "none"
    /\ batchErr = Nil
    /\ cleanupFns = <<>>
    /\ bg = NoTasks
    /\ goroutinePoolDead = FALSE
    /\ attempts = 0
    /\ containers = {}
    /\ poll = NoPolls
    /\ upErr = Nil
    /\ cleanupIdx = 0
    /\ errs = <<>>
    /\ deferErrs = <<>>
    /\ elapsed = FALSE
    /\ tickPending = FALSE
    /\ trace = <<>>
    /\ engineOps = {}
    /\ invoked = <<>>
    /\ cancelledInWait = FALSE
    /\ built = <<>>
    /\ rebuilt = <<>>
    /\ delegated = NotConfigured
    /\ returned = <<>>
    /\ cancelledInTest = FALSE
    /\ waitsAfterDead = -1

\* an earlier invocation may have left the output folder of the first run behind
Init ==
    /\ InitRun
    /\ pc = "main"
    /\ cfg \in RunConfigs
    /\ settings = <<>>
    /\ fs \in {{}, {RunOutPath(<<"a", "_", "b">>, <<"c">>)}}

Next ==
    \/ Run
    \/ RunLoop
    \/ testRunRun
    \/ preInfrastructure
    \/ infrastructure
    \/ postInfrastructure
    \/ preTool
    \/ tool
    \/ postTool
    \/ preTest
    \/ test
    \/ postTest
    \/ stageReturn
    \/ \E s \in Stages : composeUpDone(s)
    \/ upSelect
    \/ upComposePs
    \/ upCheck
    \/ \E c \in Containers : pollInspect(c)
    \/ \E c \in Containers : pollSelect(c)
    \/ upWait
    \/ testSelect
    \/ testCompleted
    \/ logTick
    \/ testCancelled
    \/ preCleanup
    \/ cleanup
    \/ cleanupCall
    \/ cleanupReturn
    \/ postCleanup
    \/ Cancel

Spec == Init /\ [][Next]_vars

(***************************************************************************)
(* buildTestRuns on its own: the configuration is drawn, then built.       *)
(***************************************************************************)
InitBuild ==
    /\ InitRun
    /\ pc = "build"
    /\ cfg \in BuildConfigs
    /\ settings = <<>>
    /\ fs = {}

Build ==
    /\ pc = "build"
    /\ built' \in buildTestRuns(cfg)
    /\ pc' = "built"
    /\ UNCHANGED <<testRuns, runIdx, fs, ctxDone, stepIdx, err, runErr, goroutinePool,
                   panicking, runResult, batchErr, cleanupFns, tsk, upv, clv, tmv,
                   trace, engineOps, cancelledInWait, existed, cfg, aux, gh>>

\* buildTestRuns is called once more on the same configuration
Rebuild ==
    /\ pc = "built"
    /\ rebuilt' \in buildTestRuns(cfg)
    /\ pc' = "rebuilt"
    /\ UNCHANGED <<testRuns, runIdx, fs, ctxDone, stepIdx, err, runErr, goroutinePool,
                   panicking, runResult, batchErr, cleanupFns, tsk, upv, clv, tmv,
                   trace, engineOps, cancelledInWait, existed, cfg, built, settings,
                   delegated, gh>>

NextBuild == Build \/ Rebuild

BuildSpec == InitBuild /\ [][NextBuild]_vars

(***************************************************************************)
(* Collector.Configure of the kafka collector on its own: a settings map   *)
(* is drawn, then configured.                                              *)
(***************************************************************************)
\* Collector.Configure, lines 106-150
Configure ==
    /\ pc = "configure"
    /\ pc' = "configured"
    /\ LET kcfg == parseKafkaConfig(settings) IN
       IF kcfg.err # Nil
       THEN /\ settings' = settings
            /\ delegated' = [called |-> FALSE, settings |-> <<>>,
                              err |-> Wrap("failed to parse config", kcfg.err),
                              given |-> settings]
       ELSE LET m == WithoutTopics(settings)
                queries == SynthesizedFrom(kcfg.Topics, 1) \o SettingsQueries(m)
                out == Put(m, "queries", [type |-> SliceOfMaps, elems |-> queries])
            IN /\ settings' = out
               /\ delegated' = [called |-> TRUE, settings |-> out,
                                 err |-> parseConfig(out), given |-> settings]
    /\ UNCHANGED <<testRuns, runIdx, fs, ctxDone, stepIdx, err, runErr, goroutinePool,
                   panicking, runResult, batchErr, cleanupFns, tsk, upv, clv, tmv,
                   trace, engineOps, cancelledInWait, existed, cfg, built, rebuilt, gh>>

\* the queries a user can supply; the second one is, field for field, the
\* first synthesized query of topic t1
UserQueries ==
    {[name |-> <<"lag">>, query |-> <<"kafka_lag">>, unit |-> "msg", interval |-> "1s"],
     TopicQueries("t1")[1]}

TopicNames == {"t1", "t2"}

\* the values of the topics entry: a list of names, or something else
TopicsValues ==
    {[wellFormed |-> TRUE, names |-> ns] : ns \in SeqsUpTo(MaxTopics, TopicNames)}
    \cup {[wellFormed |-> FALSE, names |-> <<>>]}

\* the values of the queries entry: a list, of either dynamic type
QueriesValues ==
    {[type |-> ty, elems |-> qs] :
        ty \in {SliceOfMaps, SliceOfAny}, qs \in SeqsUpTo(MaxQueries, UserQueries)}

\* settings maps: url, topics (optional), queries (optional)
SettingsMaps ==
    {[k \in {"url"} |-> "http://localhost:7071/metrics"]}
    \cup {[k \in {"url", "topics"} |->
              IF k = "url" THEN "http://localhost:7071/metrics" ELSE tv] :
            tv \in TopicsValues}
    \cup {[k \in {"url", "queries"} |->
              IF k = "url" THEN "http://localhost:7071/metrics" ELSE qv] :
            qv \in QueriesValues}
    \cup {[k \in {"url", "topics", "queries"} |->
              IF k = "url" THEN "http://localhost:7071/metrics"
              ELSE IF k = "topics" THEN tv ELSE qv] :
            tv \in TopicsValues, qv \in QueriesValues}

InitConfigure ==
    /\ InitRun
    /\ pc = "configure"
    /\ cfg = <<>>
    /\ fs = {}
    /\ settings \in SettingsMaps

NextConfigure == Configure

ConfigureSpec == InitConfigure /\ [][NextConfigure]_vars

(***************************************************************************)
(* Properties of testRun.Run, checked under Spec.                          *)
(***************************************************************************)
IsPrefix(p, q) == Len(p) <= Len(q) /\ p = SubSeq(q, 1, Len(p))

Reverse(q) == [i \in 1..Len(q) |-> q[Len(q) + 1 - i]]

ForwardSteps ==
    {"pre-infrastructure", "infrastructure", "post-infrastructure",
     "pre-tool", "tool", "post-tool", "pre-test", "test", "post-test"}

CleanupTriple == <<"pre-cleanup", "cleanup", "post-cleanup">>

IsForwardStep(x) == x \in ForwardSteps
IsCleanupStep(x) == x \notin ForwardSteps

\* testRun.Run got past the output folder guard (lines 148-156)
LifecycleStarted == goroutinePool = "created"

\* testRun.Run has ended and the driver has not yet looked at the result
RunEnded == pc = "run_ret"

\* the cleanup functions invoked so far, and the errors of those that failed
InvokedFns == [i \in DOMAIN invoked |-> invoked[i].fn]
FailedCauses ==
    {<<invoked[i].fn.kind, invoked[i].fn.stage>> :
        i \in {j \in DOMAIN invoked : invoked[j].failed}}

\* C1: when a run whose lifecycle started ends, whether the forward walk
\* succeeded, failed, was cancelled or panicked, pre-cleanup, cleanup and
\* post-cleanup have each run exactly once, in that order, as the last three
\* steps of the run; no cleanup step runs twice at any time.
C1_CleanupTripleAlwaysRuns ==
    /\ IsPrefix(SelectSeq(trace, IsCleanupStep), CleanupTriple)
    /\ (RunEnded /\ LifecycleStarted) =>
          /\ SelectSeq(trace, IsCleanupStep) = CleanupTriple
          /\ Len(trace) >= 3
          /\ SubSeq(trace, Len(trace) - 2, Len(trace)) = CleanupTriple

\* a run in which a stage panicked has ended with the three cleanup steps run
C1_Witness ==
    /\ RunEnded
    /\ runResult = "panic"
    /\ SelectSeq(trace, IsCleanupStep) = CleanupTriple

\* C2: the cleanup step calls the registered functions in reverse registration
\* order, each once; when it has returned all of them have been called,
\* whichever failed, and its error is nil iff none failed and otherwise holds
\* exactly the errors of those that failed.
C2_CleanupCallsAllInReverse ==
    /\ IsPrefix(InvokedFns, Reverse(cleanupFns))
    /\ (LifecycleStarted /\ (RunEnded \/ (pc = "defer" /\ stepIdx = 3))) =>
          LET ret == IF deferErrs = <<>> THEN Nil ELSE deferErrs[1] IN
          /\ InvokedFns = Reverse(cleanupFns)
          /\ ret.causes = FailedCauses
          /\ (ret = Nil) <=> (FailedCauses = {})

\* four functions were registered, the first and the last called failed, the
\* ones in between were called all the same
C2_Witness ==
    /\ RunEnded
    /\ Len(invoked) = 4
    /\ invoked[1].failed
    /\ ~invoked[2].failed
    /\ invoked[4].failed

\* C3: a run that returns returns the error of the forward walk when a stage
\* failed, otherwise the joined errors of the cleanup, and nil only when the
\* forward walk and the cleanup both succeeded.
C3_RunResult ==
    (RunEnded /\ runResult = "returned") =>
        IF ~LifecycleStarted
        THEN runErr # Nil
        ELSE IF err # Nil
        THEN runErr = err
        ELSE IF FailedCauses # {}
        THEN runErr = [wraps |-> <<>>, causes |-> FailedCauses]
        ELSE runErr = Nil

\* a stage failed, a cleanup function failed too, and Run returned the stage's error
C3_Witness ==
    /\ RunEnded
    /\ runResult = "returned"
    /\ err # Nil
    /\ FailedCauses # {}
    /\ runErr = err

\* C4: the forward steps a run has entered are an initial part of the nine
\* stages in their order, all of them before any cleanup step; once a stage
\* has returned an error (or panicked) the run is in its cleanup phase, and
\* the step entered after the failed stage is pre-cleanup.
C4_ForwardWalkInOrder ==
    LET fwd == SelectSeq(trace, IsForwardStep) IN
    /\ IsPrefix(fwd, steps)
    /\ IsPrefix(fwd, trace)
    /\ IsPrefix(SubSeq(trace, Len(fwd) + 1, Len(trace)), CleanupTriple)
    /\ (LifecycleStarted /\ (err # Nil \/ panicking)) =>
          pc \in {"defer", "cleanup_loop", "run_ret", "done"}

\* the tool stage failed: the five first stages were entered, then pre-cleanup
C4_Witness ==
    /\ err # Nil
    /\ trace = SubSeq(steps, 1, 5) \o <<"pre-cleanup">>

\* C5: a run whose output folder existed when it was called fails with the
\* "already exists" error, has performed no container-engine operation, has
\* launched no task and has registered no cleanup function; a run that has
\* done any of these has created its output folder first.
C5_OutputFolderGuard ==
    /\ (RunEnded /\ existed) =>
          /\ runErr = NewErr("output folder already exists", 0)
          /\ engineOps = {}
          /\ cleanupFns = <<>>
          /\ bg = NoTasks
    /\ (runIdx > 0 /\ (engineOps # {} \/ cleanupFns # <<>> \/ bg # NoTasks)) =>
          /\ ~existed
          /\ testRuns[runIdx].OutPath \in fs

\* the second run of a batch has the output path of the first
C5_Witness ==
    /\ RunEnded
    /\ existed
    /\ runIdx = 2
    /\ testRuns[1].OutPath = testRuns[2].OutPath
    /\ engineOps = {}

\* C6: as soon as one container has been seen dead, dockerComposeUpWait can
\* return its failure, whatever the polls of the other containers are doing.
C6_DeadContainerFailsAtOnce ==
    (pc = "up_polls" /\ \E c \in containers : poll[c] = "dead") => ENABLED upWait

\* C7: dockerComposeUpWait returns success only when every listed container
\* has been seen ready; once all have been seen ready it can return, and what
\* it returns is success.
C7_SuccessIffAllReady ==
    /\ (pc = "stage_ret" /\ upErr = Nil) => containers \subseteq observedReady
    /\ (pc = "up_polls" /\ containers \subseteq observedReady) => ENABLED upWait
    /\ (pc = "stage_ret" /\ containers # {} /\ containers \subseteq observedReady) =>
          upErr = Nil

\* it has returned success with two containers seen ready
C7_Witness ==
    /\ pc = "stage_ret"
    /\ upErr = Nil
    /\ Cardinality(containers) >= 2
    /\ containers \subseteq observedReady

\* C8: from the moment the ComposeUp task of a stage is launched the
\* ComposeDown of that stage is registered, and when the run ends it has been
\* invoked, however dockerComposeUpWait ended and whether or not ComposeUp
\* has finished.
C8_DownRegisteredAndInvoked ==
    \A s \in Stages :
        bg[s] # "none" =>
            /\ \E i \in DOMAIN cleanupFns : cleanupFns[i] = [kind |-> "down", stage |-> s]
            /\ RunEnded =>
                  \E i \in DOMAIN invoked : invoked[i].fn = [kind |-> "down", stage |-> s]

\* the run was cancelled and has ended while the ComposeUp of the tool stage is
\* still running, and the ComposeDown of the tool stage has been invoked
C8_Witness ==
    /\ RunEnded
    /\ ctxDone
    /\ bg["tool"] = "running"
    /\ \E i \in DOMAIN invoked : invoked[i].fn = [kind |-> "down", stage |-> "tool"]

\* C9: a run whose context was cancelled while one of its waits was parked
\* ends by returning, and what it returns is the cancellation error the stage
\* returned.
C9_CancelledWaitReturnsCancellation ==
    (RunEnded /\ cancelledInWait) =>
        /\ runResult = "returned"
        /\ <<"context canceled", 0>> \in err.causes
        /\ runErr = err

(***************************************************************************)
(* Properties of buildTestRuns, checked under BuildSpec.                   *)
(***************************************************************************)
\* the tool names of a configuration: declared globally or by a scenario
ToolUnion(c) ==
    DOMAIN c.Tools \cup UNION {DOMAIN c.Tests[i].Tools : i \in DOMAIN c.Tests}

\* every scenario has the same tool names, those of the configuration
SameToolsInEveryScenario(c) ==
    \A i \in DOMAIN c.Tests :
        DOMAIN c.Tools \cup DOMAIN c.Tests[i].Tools = ToolUnion(c)

\* C10: for a configuration whose scenarios all have the tool names T,
\* buildTestRuns produces |S| x |T| runs and no two of them have the same
\* output path.
C10_RunsAndDistinctPaths ==
    (pc = "built" /\ SameToolsInEveryScenario(cfg)) =>
        /\ Len(built) = Len(cfg.Tests) * Cardinality(ToolUnion(cfg))
        /\ \A i, j \in DOMAIN built : i # j => built[i].OutPath # built[j].OutPath

\* the order in which the configuration document declares the names of its
\* services and tools
DocOrder == <<<<"k">>, <<"z">>, <<"c">>, <<"b", "_", "c">>>>

\* the keys of map m in the order of their declaration
DeclaredKeys(m) == SelectSeq(DocOrder, LAMBDA n : n \in DOMAIN m)

\* the values of map m in the order of their declaration
DeclaredValues(m) == ValuesIn(m, DeclaredKeys(m))

\* the scenario of the configuration a run was built from
ScenarioOf(c, r) == CHOOSE i \in DOMAIN c.Tests : c.Tests[i].Name = r.Name

\* C11: the infrastructure list of every built run is the global
\* infrastructure followed by the infrastructure of its scenario, each in its
\* declared order, nothing dropped.
C11_InfraGlobalThenScenario ==
    pc = "built" =>
        \A i \in DOMAIN built :
            built[i].Infrastructure =
                DeclaredValues(cfg.Infrastructure)
                \o DeclaredValues(cfg.Tests[ScenarioOf(cfg, built[i])].Infrastructure)

\* the tool names of scenario t: the global ones in declared order, then the
\* ones only the scenario declares
DeclaredTools(c, t) ==
    DeclaredKeys(c.Tools)
    \o SelectSeq(DeclaredKeys(t.Tools), LAMBDA n : n \notin DOMAIN c.Tools)

RECURSIVE DeclaredPairsFrom(_, _)
DeclaredPairsFrom(c, i) ==
    IF i > Len(c.Tests)
    THEN <<>>
    ELSE LET t == c.Tests[i]
             names == DeclaredTools(c, t)
         IN [k \in DOMAIN names |-> <<t.Name, names[k]>>] \o DeclaredPairsFrom(c, i + 1)

\* the runs of a result, each named by its scenario and its tool
RunPairs(rs) == [i \in DOMAIN rs |-> <<rs[i].Name, rs[i].Tool>>]

\* C19: two calls of buildTestRuns on one configuration produce the same
\* runs in the same order, and within each scenario the runs of the global
\* tools come first, in declared order, then the runs of the tools only the
\* scenario declares.
C19_BuildDeterministic ==
    pc = "rebuilt" =>
        /\ RunPairs(rebuilt) = RunPairs(built)
        /\ RunPairs(built) = DeclaredPairsFrom(cfg, 1)

(***************************************************************************)
(* Further properties of a batch, checked under Spec.                      *)
(***************************************************************************)
\* C13: once the ComposeUp task has failed during the discovery loop, the
\* loop does not start another wait: at most the wait that was under way
\* completes, and no readiness poll is started.
C13_DeadFlagEndsDiscovery ==
    /\ waitsAfterDead <= 1
    /\ waitsAfterDead >= 0 => pc # "up_polls"

\* C14: no readiness poll crashes, whatever state the inspection reports,
\* and no run ends by a panic.
C14_PollNeverCrashes ==
    /\ \A c \in Containers : poll[c] # "panic"
    /\ ~panicking

\* C15: when the context is cancelled while the test stage is running, the
\* forward walk does not go on to post-test, and the run returns the
\* cancellation error.
C15_CancelledTestFails ==
    cancelledInTest =>
        /\ ~AtStep("post-test")
        /\ RunEnded =>
              /\ runResult = "returned"
              /\ <<"context canceled", 0>> \in runErr.causes

\* C16: at most one run has been started and has not returned; after a run
\* returned an error no later run is started; when the driver is done after
\* a run returned an error, its result wraps that error, and when its result
\* is nil every built run has returned nil.
C16_DriverStopsAtFirstError ==
    /\ runIdx <= Len(returned) + 1
    /\ \A i \in DOMAIN returned : returned[i] # Nil => runIdx = i
    /\ (pc = "done" /\ \E i \in DOMAIN returned : returned[i] # Nil) =>
          batchErr = Wrap("failed to run test", returned[Len(returned)])
    /\ (pc = "done" /\ batchErr = Nil) =>
          /\ Len(returned) = Len(testRuns)
          /\ \A i \in DOMAIN returned : returned[i] = Nil

\* two runs were built, the first returned an error and the driver is done
C16_Witness ==
    /\ pc = "done"
    /\ Len(testRuns) = 2
    /\ Len(returned) = 1
    /\ returned[1] # Nil

\* C17: a log file is closed only after the bring-down of the same stage has
\* been invoked, and every cleanup function of the tool stage is invoked
\* before any cleanup function of the infrastructure stage.
C17_CloseAfterDownToolFirst ==
    /\ \A i \in DOMAIN invoked :
          invoked[i].fn.kind = "close" =>
              \E j \in 1..(i - 1) : invoked[j].fn = DownFn(invoked[i].fn.stage)
    /\ \A i, j \in DOMAIN invoked :
          (invoked[i].fn.stage = "tool" /\ invoked[j].fn.stage = "infrastructure") =>
              i < j

\* a run has ended after invoking the four cleanup functions of both stages
C17_Witness ==
    /\ RunEnded
    /\ Len(invoked) = 4
    /\ invoked[4].fn = CloseFn("infrastructure")

\* C20: dockerComposeUpWait returns success only if ComposePs has listed a
\* container.
C20_NoSuccessWithoutContainers ==
    (pc = "stage_ret" /\ upErr = Nil) => containers # {}

(***************************************************************************)
(* Properties of the kafka collector, checked under ConfigureSpec.         *)
(***************************************************************************)
\* the names of the three queries synthesized for a topic
MetricNames ==
    <<"msg-rate-in-per-second", "msg-megabytes-in-per-second",
      "msg-megabytes-out-per-second">>

\* the settings handed to Configure had a list of topics (or no topics entry)
\* that parses
TopicsGiven ==
    IF "topics" \in DOMAIN delegated.given
    THEN delegated.given["topics"].names
    ELSE <<>>

TopicsParse ==
    "topics" \in DOMAIN delegated.given => delegated.given["topics"].wellFormed

\* C12: configured with topics t1..tn and no queries entry, Configure hands
\* the generic collector a map without the topics key whose queries are the
\* 3n synthesized ones, named metric[topic], grouped by topic in topic
\* order, and the generic collector's strict decoding accepts it.
C12_SynthesizedQueriesDelegated ==
    (pc = "configured" /\ TopicsParse /\ "queries" \notin DOMAIN delegated.given) =>
        /\ delegated.called
        /\ "topics" \notin DOMAIN delegated.settings
        /\ delegated.err = Nil
        /\ LET qs == delegated.settings["queries"].elems IN
           /\ Len(qs) = 3 * Len(TopicsGiven)
           /\ \A k \in DOMAIN TopicsGiven : \A j \in 1..3 :
                 qs[3 * (k - 1) + j].name = <<MetricNames[j], "[", TopicsGiven[k], "]">>

\* configured with two different topics and no queries: six queries delegated
C12_Witness ==
    /\ pc = "configured"
    /\ "queries" \notin DOMAIN delegated.given
    /\ Len(TopicsGiven) = 2
    /\ TopicsGiven[1] # TopicsGiven[2]
    /\ delegated.called
    /\ Len(delegated.settings["queries"].elems) = 6

\* C18: whatever queries entry the user supplied, the delegated queries are
\* the synthesized ones followed by all the user's queries, in their order.
C18_UserQueriesKept ==
    (pc = "configured" /\ TopicsParse /\ "queries" \in DOMAIN delegated.given) =>
        /\ delegated.called
        /\ delegated.settings["queries"].elems
              = SynthesizedFrom(TopicsGiven, 1) \o delegated.given["queries"].elems

(***************************************************************************)
(* Tasks of a run, checked under Spec.                                     *)
(***************************************************************************)
\* C21: when testRun.Run has ended, no ComposeUp task started through r.Go
\* is still running and no readiness poll is still inspecting or waiting.
C21_NoTaskOutlivesRun ==
    RunEnded =>
        /\ \A s \in Stages : bg[s] # "running"
        /\ \A c \in Containers : poll[c] \notin {"inspect", "wait"}

====
